---- MODULE Spec2Model ----
(***************************************************************************)
(* PyPMS sensor acquisition: pms/core/reader.py.                           *)
(*                                                                         *)
(* One Reader instance (a SensorReader over a SensorStream, or a           *)
(* MessageReader over a MessageStream) driven by one caller:               *)
(*   with reader as r:          Enter / Exit / BodyRaise                   *)
(*       for obs in r(raw=..):  Call, then Read / Resume / ... steps of    *)
(*           ...                the generator returned by __call__         *)
(*   with exit_on_fail(reader) as r:   ExitOnFail instead of Enter         *)
(* Time is in whole seconds.                                               *)
(***************************************************************************)
EXTENDS Integers, Sequences, FiniteSets, TLC

\* ---------------------------------------------------------------- bounds
MaxSamples == 2     \* largest configured samples
MaxReads == 3       \* Stream.read() attempts per invocation of the callable
MaxCalls == 2       \* invocations of the callable per Reader instance
MaxOpens == 2       \* scope entries per Reader instance
MaxElapsed == 3     \* seconds the caller spends on one yielded item
MaxRows == 3        \* records in the replay log
MaxPreHeat == 2     \* largest sensor.pre_heat
MaxRetries == 1     \* largest retry budget a caller asks for
MaxInterval == 2    \* largest configured interval
MaxJunk == 1        \* bytes a command exchange leaves unread in the input buffer

\* ------------------------------------------------------------- constants
None == 0 - 1000    \* Python's None, for the Optional[int] parameters
SettleDelay == 5    \* time.sleep(5) after SensorNotReady

Kinds == {"sensor", "message"}
SensorName == "PMS3003"          \* the configured sensor model (MessageReader)
OtherName == "PMSx003"           \* another model present in the same log

\* truth value of an Optional[int] in `if x:`
Truthy(x) == x # None /\ x # 0

Max(a, b) == IF a > b THEN a ELSE b

VARIABLES
    kind,            \* which Reader subclass this instance is
    samples0,        \* samples as passed to __init__
    samples,         \* self.samples (MessageReader.__call__ decrements it)
    interval,        \* self.interval
    sensor_pre_heat, \* sensor.pre_heat of the configured sensor model
    rows,            \* the replay log: records [sensor, time, hex]
    device,          \* what is on the serial line: [wake, mode: length of its
                     \*   answer to the wake / passive_mode command, valid:
                     \*   sensor.check of the combined answer]
    sstream,         \* SensorStream: [is_open: serial.is_open, pre_heat]
    mstream,         \* MessageStream: [has_csv: hasattr(self, "csv"),
                     \*   has_data: hasattr(self, "data"), csv_open,
                     \*   data: rows not yet pulled, data_done]
    serial,          \* the serial port: [log: port events and commands since
                     \*   the last scope entry, passive_read ones left out;
                     \*   passive_reads: passive_read commands of the current
                     \*   invocation of the callable; in_waiting: bytes in the
                     \*   input buffer; cmd_left: in_waiting as it was when
                     \*   the last _cmd of read() returned]
    scope,           \* the caller w.r.t. `with reader`: "out" (not entered, or
                     \*   __enter__ raised), "in", "left" (__exit__ has run)
    opens,           \* scope entries so far
    closes,          \* Stream.close() calls since the last scope entry
    helper,          \* the last scope entry was made through exit_on_fail
    pc,              \* position of the generator of __call__
    calls,           \* invocations of the callable so far
    raw,             \* the raw flag of the current invocation
    sample,          \* SensorReader.__call__: local `sample`
    reads,           \* Stream.read() attempts of the current invocation
    n_notready,      \* ... of which raised SensorNotReady
    n_warning,       \* ... of which raised SensorWarning
    out,             \* items yielded by the current invocation
    elapsed,         \* time.time() - reading.time while the caller holds the
                     \* yielded item, else 0
    delay,           \* seconds of the time.sleep(delay) in progress, else 0
    done_by,         \* why the generator finished
    error,           \* exception that reached the caller from the last step
    slept_settle,    \* seconds slept in time.sleep(5), current invocation
    twin,            \* the generator of a second Reader of the same
                     \*   configuration, invoked with the other raw flag and
                     \*   given the same results of Stream.read(), the same
                     \*   clock and the same interrupts
    slept_preheat    \* seconds slept in _pre_heat, whole instance lifetime

config == <<kind, samples0, interval, sensor_pre_heat, rows, device>>
streamv == <<sstream, mstream, serial>>
scopev == <<scope, opens, closes, helper>>
genv == <<pc, calls, raw, sample, reads, n_notready, n_warning, out,
          elapsed, delay, done_by, slept_settle, twin>>
vars == <<config, samples, streamv, scopev, genv, error, slept_preheat>>

\* ------------------------------------------------------------ value types
\* Reading(buffer, obs_data); obs_data.time is the reading's time
Reading(buffer, time) == [buffer |-> buffer, time |-> time]
\* Reading.raw_data: RawData(self.time, self.buffer)
raw_data(r) == [repr |-> "RawData", time |-> r.time, data |-> r.buffer]
\* Reading.obs_data: the decoded observation
obs_data(r) == [repr |-> "ObsData", time |-> r.time, data |-> r.buffer]
\* `reading.raw_data if raw else reading.obs_data`
Yielded(r, rawflag) == IF rawflag THEN raw_data(r) ELSE obs_data(r)

\* ---------------------------------------------------------- replay logs
Row(i, s) == [sensor |-> s, time |-> 10 * i, hex |-> i]
RECURSIVE LogsOfLen(_)
LogsOfLen(n) ==
    IF n = 0 THEN {<<>>}
    ELSE {Append(l, Row(n, s)) : l \in LogsOfLen(n - 1), s \in {SensorName, OtherName}}
Logs == UNION {LogsOfLen(n) : n \in 0..MaxRows}

\* mutant: the generator expression without its filter
SkipToMatch_NoFilter(data) == data

\* (row for row in reader if row["sensor"] == self.sensor.name): the rows
\* left once the generator expression has skipped to its next match
RECURSIVE SkipToMatch(_)
SkipToMatch(data) ==
    IF data = <<>> THEN <<>>
    ELSE IF Head(data).sensor = SensorName THEN data
    ELSE SkipToMatch(Tail(data))

\* the matching rows of a log, in file order
RECURSIVE Matching(_)
Matching(data) ==
    IF data = <<>> THEN <<>>
    ELSE IF Head(data).sensor = SensorName
         THEN <<Head(data)>> \o Matching(Tail(data))
         ELSE Matching(Tail(data))

\* ----------------------------------------------------------- SensorStream
\* _cmd(command): one command exchange with the sensor (the command bytes of
\* the sensor model, if it has any, are written and the answer is read)
SensorStream_cmd(w, command) ==
    IF command = "passive_read"
    THEN [w EXCEPT !.passive_reads = @ + 1]
    ELSE [w EXCEPT !.log = Append(@, command)]

\* _cmd: serial.read(max(cmd.answer_length, self.serial.in_waiting)) returns,
\* and `left` bytes that the device sent beyond them stay in the input buffer
SerialRead(w, left) == [w EXCEPT !.in_waiting = left, !.cmd_left = left]

\* serial.reset_input_buffer()
reset_input_buffer(w) == [w EXCEPT !.in_waiting = 0]

\* serial.open() / serial.close()
PortEvent(w, event) == [w EXCEPT !.log = Append(@, event)]

\* _pre_heat: one time.sleep(1) per second of self.pre_heat; seconds slept
RECURSIVE PreHeatLoop(_)
PreHeatLoop(n) == IF n <= 0 THEN 0 ELSE 1 + PreHeatLoop(n - 1)

\* mutant: self.pre_heat is not zeroed after the wait
SensorStream_pre_heat_Again(pre_heat) ==
    [slept |-> PreHeatLoop(pre_heat), pre_heat |-> pre_heat]

\* _pre_heat: [slept, pre_heat afterwards]
SensorStream_pre_heat(pre_heat) ==
    IF pre_heat = 0
    THEN [slept |-> 0, pre_heat |-> pre_heat]
    ELSE [slept |-> PreHeatLoop(pre_heat), pre_heat |-> 0]

\* mutant: read() goes on to the port whether or not it is open
SensorStream_exhausted_Never(s) == FALSE

\* read(): `if not self.serial.is_open: raise StopIteration`
SensorStream_exhausted(s) == ~s.is_open

\* mutant: the model check comes before the length check
OpenResult_CheckFirst(buflen, valid) ==
    IF ~valid THEN "UnableToRead: Sensor failed validation"
    ELSE IF buflen = 0 THEN "UnableToRead: Sensor did not respond"
    ELSE "none"

\* open(): the checks on the combined wake + passive_mode answer; the
\* UnableToRead it raises, if any
OpenResult(buflen, valid) ==
    IF buflen = 0 THEN "UnableToRead: Sensor did not respond"
    ELSE IF ~valid THEN "UnableToRead: Sensor failed validation"
    ELSE "none"

\* open(), given the answer lengths and the outcome of sensor.check; the
\* two command exchanges read what the input buffer held as well
SensorStream_open(s, w, lwake, lmode, valid) ==
    LET w0 == IF s.is_open THEN w ELSE reset_input_buffer(PortEvent(w, "open"))
        w1 == SensorStream_cmd(w0, "wake")
        heat == SensorStream_pre_heat(s.pre_heat)
        w2 == SerialRead(SensorStream_cmd(w1, "passive_mode"), 0)
    IN  [stream |-> [is_open |-> TRUE, pre_heat |-> heat.pre_heat],
         serial |-> w2,
         slept |-> heat.slept,
         result |-> OpenResult(lwake + lmode + w0.in_waiting, valid)]

\* open() up to a KeyboardInterrupt in the time.sleep(1) of _pre_heat after
\* `slept` whole seconds: self.pre_heat keeps its value
SensorStream_open_interrupted(s, w, slept) ==
    LET w0 == IF s.is_open THEN w ELSE reset_input_buffer(PortEvent(w, "open"))
        w1 == SerialRead(SensorStream_cmd(w0, "wake"), 0)
    IN  [stream |-> [s EXCEPT !.is_open = TRUE],
         serial |-> w1,
         slept |-> slept]

\* close(): sleep command, then serial.close()
SensorStream_close(s, w) ==
    [stream |-> [s EXCEPT !.is_open = FALSE],
     serial |-> SerialRead(PortEvent(SensorStream_cmd(w, "sleep"), "close"), 0)]

\* close() when _cmd("sleep") raises, before (`sent` false) or after the
\* command was written: serial.close() is not reached
SensorStream_close_failed(s, w, sent) ==
    [stream |-> s,
     serial |-> IF sent THEN SensorStream_cmd(w, "sleep") ELSE w]

\* ---------------------------------------------------------- MessageStream
MessageStream_open(m) ==
    [has_csv |-> TRUE, has_data |-> TRUE, csv_open |-> TRUE, data |-> rows,
     data_done |-> FALSE]

MessageStream_close(m) == [m EXCEPT !.csv_open = FALSE]

\* read(): `if not hasattr(self, "data"): raise StopIteration`
MessageStream_exhausted(m) == ~m.has_data

\* ------------------------------------------------------------------ Init
\* a silent line, another sensor model, the configured model (with and
\* without an answer to the wake command)
NoDevice == [wake |-> 0, mode |-> 0, valid |-> FALSE]
Devices ==
    {NoDevice,
     [wake |-> 0, mode |-> 0, valid |-> TRUE],
     [wake |-> 1, mode |-> 1, valid |-> FALSE],
     [wake |-> 0, mode |-> 1, valid |-> TRUE],
     [wake |-> 1, mode |-> 1, valid |-> TRUE]}

SamplesSet == {None} \cup (-1..MaxSamples)
IntervalSet == {None, 0, MaxInterval}

Init ==
    /\ kind \in Kinds
    /\ samples0 \in SamplesSet
    /\ samples = samples0
    /\ interval \in (IF kind = "sensor" THEN IntervalSet ELSE {None})
    /\ sensor_pre_heat \in (IF kind = "sensor" THEN {0, MaxPreHeat} ELSE {0})
    /\ rows \in (IF kind = "message" THEN Logs ELSE {<<>>})
    /\ device \in (IF kind = "sensor" THEN Devices ELSE {NoDevice})
    /\ sstream = [is_open |-> FALSE, pre_heat |-> sensor_pre_heat]
    /\ mstream = [has_csv |-> FALSE, has_data |-> FALSE, csv_open |-> FALSE,
                  data |-> <<>>, data_done |-> FALSE]
    /\ serial = [log |-> <<>>, passive_reads |-> 0, in_waiting |-> 0, cmd_left |-> 0]
    /\ scope = "out" /\ opens = 0 /\ closes = 0 /\ helper = FALSE
    /\ pc = "none" /\ calls = 0 /\ raw = FALSE /\ sample = 0 /\ reads = 0
    /\ n_notready = 0 /\ n_warning = 0 /\ out = <<>>
    /\ elapsed = 0 /\ delay = 0 /\ done_by = "none"
    /\ error = "none"
    /\ slept_settle = 0 /\ slept_preheat = 0
    /\ twin = [raw |-> TRUE, pc |-> "none", samples |-> samples0, sample |-> 0,
               reads |-> 0, n_notready |-> 0, n_warning |-> 0, out |-> <<>>,
               delay |-> 0, done_by |-> "none", slept_settle |-> 0]

\* ------------------------------------------------- Reader scope (with ...)
UnableToRead ==
    {"UnableToRead: Sensor did not respond", "UnableToRead: Sensor failed validation"}

\* mutant: the helper lets UnableToRead through
exit_on_fail_Reraise(exc) == exc

\* exit_on_fail: `except UnableToRead: sys.exit(1)`; the exception that leaves
\* the helper when `exc` is raised inside it
exit_on_fail(exc) == IF exc \in UnableToRead THEN "SystemExit: 1" ELSE exc

\* the exception that reaches the caller when `exc` leaves `with reader`
Raised(guarded, exc) == IF guarded THEN exit_on_fail(exc) ELSE exc

\* Reader.__exit__ -> self.stream.close(), leaving the scope by `path`;
\* `w` is what reached the serial port by the time __exit__ is called
LeaveScope(w) ==
    /\ scope' = "left"
    /\ closes' = closes + 1
    /\ opens' = opens
    /\ helper' = helper
    /\ IF kind = "sensor"
       THEN LET c == SensorStream_close(sstream, w)
            IN  sstream' = c.stream /\ serial' = c.serial /\ UNCHANGED mstream
       ELSE /\ mstream' = MessageStream_close(mstream)
            /\ UNCHANGED <<sstream, serial>>

\* mutant: the stream is closed although __enter__ raised
Reader_enter_CloseOnRaise(o) ==
    IF o.result = "none" THEN o
    ELSE [o EXCEPT !.stream = SensorStream_close(o.stream, o.serial).stream,
                   !.serial = SensorStream_close(o.stream, o.serial).serial]

\* __enter__: `self.stream.open()`; when it raises, the `with` statement is
\* left at once and __exit__ is not called: the stream stays as open() left it
Reader_enter(o) == o

\* Reader.__enter__ of a SensorReader, in `with reader` or, guarded, in
\* `with exit_on_fail(reader)`
SensorOpenScope(guarded) ==
    /\ kind = "sensor" /\ scope # "in" /\ opens < MaxOpens
    /\ LET o == Reader_enter(SensorStream_open(sstream, [serial EXCEPT !.log = <<>>],
                                               device.wake, device.mode, device.valid))
       IN  /\ sstream' = o.stream
           /\ serial' = o.serial
           /\ slept_preheat' = slept_preheat + o.slept
           /\ scope' = IF o.result = "none" THEN "in" ELSE "out"
           /\ error' = Raised(guarded, o.result)
    /\ opens' = opens + 1
    /\ closes' = 0
    /\ helper' = guarded
    /\ UNCHANGED <<config, samples, mstream, genv>>

\* `with reader` on a SensorReader
SensorEnter == SensorOpenScope(FALSE)

\* `with exit_on_fail(reader)` on a SensorReader
SensorExitOnFail == SensorOpenScope(TRUE)

\* Reader.__enter__ of a MessageReader, in `with reader` or, guarded, in
\* `with exit_on_fail(reader)`
MessageOpenScope(guarded) ==
    /\ kind = "message" /\ scope # "in" /\ opens < MaxOpens
    /\ mstream' = MessageStream_open(mstream)
    /\ scope' = "in"
    /\ error' = "none"
    /\ opens' = opens + 1
    /\ closes' = 0
    /\ helper' = guarded
    /\ UNCHANGED <<config, samples, sstream, serial, genv, slept_preheat>>

\* `with reader` on a MessageReader
MessageEnter == MessageOpenScope(FALSE)

\* `with exit_on_fail(reader)` on a MessageReader
MessageExitOnFail == MessageOpenScope(TRUE)

\* the scope body ends normally
Exit ==
    /\ scope = "in"
    /\ LeaveScope(serial)
    /\ error' = "none"
    /\ UNCHANGED <<config, samples, genv, slept_preheat>>

\* the scope body raises an error of its own
BodyRaise ==
    /\ scope = "in"
    /\ LeaveScope(serial)
    /\ error' = Raised(helper, "BodyError")
    /\ UNCHANGED <<config, samples, genv, slept_preheat>>

\* ------------------------------------- Reader.__call__ as a function
\* The generator of __call__ as a record g of the instance's self.samples and
\* of its own state, and its steps as functions of g and of what
\* self.stream.read() gave: res = [kind, why, reading].
ReadResult(k, why, r) == [kind |-> k, why |-> why, reading |-> r]

\* r(raw=rawflag): a new generator
Reader_call(g, rawflag) ==
    [g EXCEPT !.raw = rawflag, !.pc = "read", !.sample = 0, !.reads = 0,
              !.n_notready = 0, !.n_warning = 0, !.out = <<>>, !.delay = 0,
              !.done_by = "none", !.slept_settle = 0]

\* SensorReader.__call__: self.stream.read() and its except/else clause
SensorReader_call_read(g, res) ==
    LET g1 == [g EXCEPT !.reads = @ + 1] IN
    CASE res.kind = "Reading" ->
           [g1 EXCEPT !.pc = "yielded",
                      !.out = Append(@, IF g.raw THEN raw_data(res.reading)
                                                 ELSE obs_data(res.reading))]
      [] res.kind = "SensorNotReady" ->
           [g1 EXCEPT !.pc = "settle", !.n_notready = @ + 1]
      [] res.kind = "SensorWarning" ->
           [g1 EXCEPT !.pc = "read", !.n_warning = @ + 1]
      [] res.kind = "StopIteration" ->
           [g1 EXCEPT !.pc = "done", !.done_by = res.why]
      [] OTHER ->
           [g1 EXCEPT !.pc = "done", !.done_by = "error"]

\* SensorReader.__call__: time.sleep(5) returns
SensorReader_call_settled(g) ==
    [g EXCEPT !.pc = "read", !.slept_settle = @ + 5]

\* mutant: an invocation with raw set is neither capped nor paced
SensorReader_call_resume_RawUnpaced(g, since) ==
    LET n == g.sample + 1
        d == IF ~g.raw /\ interval # None /\ interval # 0 /\ interval - since > 0
             THEN interval - since ELSE 0
    IN  IF ~g.raw /\ g.samples # None /\ n >= g.samples
        THEN [g EXCEPT !.sample = n, !.pc = "done", !.done_by = "samples",
                       !.delay = 0]
        ELSE [g EXCEPT !.sample = n, !.delay = d,
                       !.pc = IF d > 0 THEN "pace" ELSE "read"]

\* SensorReader.__call__: from the yield to the next read, `since` seconds
\* after reading.time
SensorReader_call_resume(g, since) ==
    LET n == g.sample + 1
        d == IF interval # None /\ interval # 0 /\ interval - since > 0
             THEN interval - since ELSE 0
    IN  IF g.samples # None /\ n >= g.samples
        THEN [g EXCEPT !.sample = n, !.pc = "done", !.done_by = "samples",
                       !.delay = 0]
        ELSE [g EXCEPT !.sample = n, !.delay = d,
                       !.pc = IF d > 0 THEN "pace" ELSE "read"]

\* SensorReader.__call__: time.sleep(delay) returns
SensorReader_call_paced(g) == [g EXCEPT !.pc = "read", !.delay = 0]

\* SensorReader.__call__: `except KeyboardInterrupt: print()`
SensorReader_call_interrupt(g) ==
    [g EXCEPT !.pc = "done", !.done_by = "interrupt", !.delay = 0]

\* MessageReader.__call__: self.stream.read() and the yield
MessageReader_call_read(g, res) ==
    LET g1 == [g EXCEPT !.reads = @ + 1] IN
    CASE res.kind = "Reading" ->
           [g1 EXCEPT !.pc = "yielded",
                      !.out = Append(@, IF g.raw THEN raw_data(res.reading)
                                                 ELSE obs_data(res.reading))]
      [] res.kind = "StopIteration" ->
           [g1 EXCEPT !.pc = "done", !.done_by = res.why]
      [] OTHER ->
           [g1 EXCEPT !.pc = "done", !.done_by = "error"]

\* MessageReader.__call__: the code after `yield`
MessageReader_call_resume(g) ==
    IF g.samples # None /\ g.samples # 0
    THEN IF g.samples - 1 <= 0
         THEN [g EXCEPT !.samples = @ - 1, !.pc = "done", !.done_by = "samples"]
         ELSE [g EXCEPT !.samples = @ - 1, !.pc = "read"]
    ELSE [g EXCEPT !.pc = "read"]

\* ------------------------------------------------------ Reader.__call__
\* r(raw=...): a new generator; its code runs from the first next()
Call(rawflag) ==
    /\ calls < MaxCalls
    /\ calls' = calls + 1
    /\ raw' = rawflag
    /\ pc' = "read"
    /\ sample' = 0
    /\ reads' = 0 /\ n_notready' = 0 /\ n_warning' = 0
    /\ out' = <<>>
    /\ elapsed' = 0 /\ delay' = 0
    /\ done_by' = "none"
    /\ slept_settle' = 0
    /\ error' = "none"
    /\ serial' = [serial EXCEPT !.passive_reads = 0]
    /\ twin' = Reader_call(twin, ~rawflag)
    /\ UNCHANGED <<config, samples, sstream, mstream, scopev, slept_preheat>>

\* the generator finishes: `break`, StopIteration or KeyboardInterrupt caught
Finish(why) ==
    /\ pc' = "done"
    /\ done_by' = why

\* mutant: an exception leaves the scope without __exit__ closing the stream
Propagate_NoExit(exc, w) ==
    /\ Finish("error")
    /\ error' = exc
    /\ serial' = w
    /\ scope' = IF scope = "in" THEN "left" ELSE scope
    /\ UNCHANGED <<sstream, mstream, opens, closes, helper>>

\* an exception leaves the generator; inside the scope it leaves the scope too
Propagate(exc, w) ==
    /\ Finish("error")
    /\ error' = IF scope = "in" THEN Raised(helper, exc) ELSE exc
    /\ IF scope = "in"
       THEN LeaveScope(w)
       ELSE /\ serial' = w
            /\ UNCHANGED <<sstream, mstream, scopev>>

\* mutant: no settle delay after SensorNotReady
AfterNotReady_NoDelay == "read"
\* where the loop goes after `except SensorNotReady`: time.sleep(5)
AfterNotReady == "settle"
\* mutant: SensorWarning handled like SensorNotReady
AfterWarning_Delay == "settle"
\* where the loop goes after `except SensorWarning`: straight to the next read
AfterWarning == "read"

\* mutant: a warning leaves the input buffer as it is
SensorStream_read_warning_Keep(w) == w
\* read(): `except SensorWarning: self.serial.reset_input_buffer(); raise`
SensorStream_read_warning(w) == reset_input_buffer(w)
\* read(): `except SensorNotReady: raise`
SensorStream_read_notready(w) == w

\* no Reading: read() raised
NoReading == Reading(0, 0)

\* the Reading of the n-th item of a SensorReader invocation (the frame and
\* its time stamp stand for their ordinal)
SensorReading(n) == Reading(n, n)

\* SensorReader.__call__: one self.stream.read() and its except/else clause;
\* `left` bytes stay in the input buffer when the command exchange returns
SensorRead(outcome, left) ==
    /\ kind = "sensor" /\ pc = "read" /\ reads < MaxReads
    /\ reads' = reads + 1
    /\ IF SensorStream_exhausted(sstream)
       THEN \* SensorStream.read raises StopIteration
            /\ outcome = "ok" /\ left = 0
            /\ Finish("closed")
            /\ twin' = SensorReader_call_read(twin,
                           ReadResult("StopIteration", "closed", NoReading))
            /\ UNCHANGED <<streamv, scopev, error, n_notready, n_warning, out>>
       ELSE LET w == SerialRead(SensorStream_cmd(serial, "passive_read"), left) IN
            CASE outcome = "ok" ->
                   /\ pc' = "yielded"
                   /\ out' = Append(out, Yielded(SensorReading(Len(out) + 1), raw))
                   /\ serial' = w
                   /\ twin' = SensorReader_call_read(twin,
                          ReadResult("Reading", "", SensorReading(Len(out) + 1)))
                   /\ UNCHANGED <<sstream, mstream, scopev, error, n_notready,
                                  n_warning, done_by>>
              [] outcome = "notready" ->
                   /\ pc' = AfterNotReady
                   /\ n_notready' = n_notready + 1
                   /\ serial' = SensorStream_read_notready(w)
                   /\ twin' = SensorReader_call_read(twin,
                          ReadResult("SensorNotReady", "", NoReading))
                   /\ UNCHANGED <<sstream, mstream, scopev, error, n_warning, out,
                                  done_by>>
              [] outcome = "warning" ->
                   /\ pc' = AfterWarning
                   /\ n_warning' = n_warning + 1
                   /\ serial' = SensorStream_read_warning(w)
                   /\ twin' = SensorReader_call_read(twin,
                          ReadResult("SensorWarning", "", NoReading))
                   /\ UNCHANGED <<sstream, mstream, scopev, error, n_notready, out,
                                  done_by>>
              [] outcome = "error" ->
                   /\ Propagate("Error", w)
                   /\ twin' = SensorReader_call_read(twin,
                          ReadResult("Error", "", NoReading))
                   /\ UNCHANGED <<n_notready, n_warning, out>>
    /\ UNCHANGED <<config, samples, calls, raw, sample, elapsed, delay,
                   slept_settle, slept_preheat>>

\* time.sleep(5) returns
SettleDone ==
    /\ pc = "settle"
    /\ pc' = "read"
    /\ slept_settle' = slept_settle + SettleDelay
    /\ twin' = SensorReader_call_settled(twin)
    /\ UNCHANGED <<config, samples, streamv, scopev, calls, raw, sample, reads,
                   n_notready, n_warning, out, elapsed, delay, done_by, error,
                   slept_preheat>>

\* mutant: the comparison is off by one
SamplesReached_OffByOne(n, cap) == cap # None /\ n > cap

\* `self.samples is not None and sample >= self.samples`
SamplesReached(n, cap) == cap # None /\ n >= cap

\* mutant: paced against the time of the call, not the reading's time stamp
PaceDelay_FromCall(ivl, since) == ivl

\* `delay = self.interval - (time.time() - reading.time)`, where
\* since = time.time() - reading.time
PaceDelay(ivl, since) == ivl - since

\* `if self.interval: ... if delay > 0: time.sleep(delay)`: seconds to sleep
PaceSleep(ivl, since) ==
    IF Truthy(ivl) /\ PaceDelay(ivl, since) > 0 THEN PaceDelay(ivl, since) ELSE 0

\* a second passes while the caller holds the yielded item
Tick ==
    /\ kind = "sensor" /\ pc = "yielded" /\ elapsed < MaxElapsed
    /\ Truthy(interval)     \* nothing else reads the clock
    /\ elapsed' = elapsed + 1
    /\ twin' = twin
    /\ UNCHANGED <<config, samples, streamv, scopev, pc, calls, raw, sample, reads,
                   n_notready, n_warning, out, delay, done_by, slept_settle, error,
                   slept_preheat>>

\* SensorReader.__call__: the code after `yield`, up to the next read
SensorResume ==
    /\ kind = "sensor" /\ pc = "yielded"
    /\ sample' = sample + 1
    /\ elapsed' = 0
    /\ twin' = SensorReader_call_resume(twin, elapsed)
    /\ IF SamplesReached(sample + 1, samples)
       THEN Finish("samples") /\ delay' = 0
       ELSE /\ delay' = PaceSleep(interval, elapsed)
            /\ pc' = IF PaceSleep(interval, elapsed) > 0 THEN "pace" ELSE "read"
            /\ done_by' = done_by
    /\ UNCHANGED <<config, samples, streamv, scopev, calls, raw, reads, n_notready,
                   n_warning, out, slept_settle, error, slept_preheat>>

\* time.sleep(delay) returns
PaceDone ==
    /\ pc = "pace"
    /\ pc' = "read"
    /\ delay' = 0
    /\ twin' = SensorReader_call_paced(twin)
    /\ UNCHANGED <<config, samples, streamv, scopev, calls, raw, sample, reads,
                   n_notready, n_warning, out, elapsed, done_by, slept_settle, error,
                   slept_preheat>>

\* mutant: KeyboardInterrupt is caught inside the loop, which goes on
Interrupt_Continues(written) ==
    /\ kind = "sensor" /\ pc \in {"read", "settle", "pace"}
    /\ written => (pc = "read" /\ sstream.is_open)
    /\ twin' = SensorReader_call_interrupt(twin)
    /\ pc' = "read"
    /\ done_by' = "interrupt"
    /\ delay' = 0
    /\ serial' = IF written THEN SensorStream_cmd(serial, "passive_read") ELSE serial
    /\ UNCHANGED <<config, samples, sstream, mstream, scopev, calls, raw, sample,
                   reads, n_notready, n_warning, out, elapsed, slept_settle, error,
                   slept_preheat>>

\* KeyboardInterrupt raised inside the generator of SensorReader.__call__:
\* while it blocks in the transport read (before or after the command was
\* written), in the settle delay or in the pacing sleep
Interrupt(written) ==
    /\ kind = "sensor" /\ pc \in {"read", "settle", "pace"}
    /\ written => (pc = "read" /\ sstream.is_open)
    /\ twin' = SensorReader_call_interrupt(twin)
    /\ Finish("interrupt")
    /\ delay' = 0
    /\ serial' = IF written THEN SensorStream_cmd(serial, "passive_read") ELSE serial
    /\ UNCHANGED <<config, samples, sstream, mstream, scopev, calls, raw, sample,
                   reads, n_notready, n_warning, out, elapsed, slept_settle, error,
                   slept_preheat>>

\* MessageReader.__call__: one self.stream.read() and the yield
MessageRead ==
    /\ kind = "message" /\ pc = "read" /\ reads <= MaxRows
    /\ reads' = reads + 1
    /\ IF MessageStream_exhausted(mstream)
       THEN \* MessageStream.read raises StopIteration
            /\ Finish("closed")
            /\ twin' = MessageReader_call_read(twin,
                           ReadResult("StopIteration", "closed", NoReading))
            /\ UNCHANGED <<mstream, out, error>>
       ELSE IF mstream.data_done
       THEN \* next() of a finished generator expression
            /\ Finish("exhausted")
            /\ twin' = MessageReader_call_read(twin,
                           ReadResult("StopIteration", "exhausted", NoReading))
            /\ UNCHANGED <<mstream, out, error>>
       ELSE IF ~mstream.csv_open
       THEN \* the DictReader reads a closed file: ValueError
            /\ Finish("error")
            /\ error' = "ValueError"
            /\ twin' = MessageReader_call_read(twin,
                           ReadResult("ValueError", "", NoReading))
            /\ mstream' = [mstream EXCEPT !.data_done = TRUE]
            /\ UNCHANGED <<out>>
       ELSE LET rest == SkipToMatch(mstream.data) IN
            IF rest = <<>>
            THEN /\ Finish("exhausted")
                 /\ mstream' = [mstream EXCEPT !.data = <<>>, !.data_done = TRUE]
                 /\ twin' = MessageReader_call_read(twin,
                                ReadResult("StopIteration", "exhausted", NoReading))
                 /\ UNCHANGED <<out, error>>
            ELSE /\ pc' = "yielded"
                 /\ out' = Append(out, Yielded(Reading(Head(rest).hex, Head(rest).time), raw))
                 /\ twin' = MessageReader_call_read(twin,
                      ReadResult("Reading", "", Reading(Head(rest).hex, Head(rest).time)))
                 /\ mstream' = [mstream EXCEPT !.data = Tail(rest)]
                 /\ UNCHANGED <<done_by, error>>
    /\ UNCHANGED <<config, samples, sstream, serial, scopev, calls, raw, sample,
                   n_notready, n_warning, elapsed, delay, slept_settle, slept_preheat>>

\* MessageReader.__call__: the code after `yield`
MessageResume ==
    /\ kind = "message" /\ pc = "yielded"
    /\ twin' = MessageReader_call_resume(twin)
    /\ IF Truthy(samples)
       THEN /\ samples' = samples - 1
            /\ IF samples - 1 <= 0
               THEN Finish("samples")
               ELSE pc' = "read" /\ done_by' = done_by
       ELSE /\ samples' = samples
            /\ pc' = "read" /\ done_by' = done_by
    /\ UNCHANGED <<config, streamv, scopev, calls, raw, sample, reads, n_notready,
                   n_warning, out, elapsed, delay, slept_settle, error, slept_preheat>>

Outcomes == {"ok", "notready", "warning", "error"}

\* the caller's steps around the scope and the callable
Caller ==
    \/ Exit
    \/ BodyRaise
    \/ \E rawflag \in BOOLEAN : Call(rawflag)

\* the steps of a SensorReader
SensorSteps ==
    \/ SensorEnter
    \/ \E outcome \in Outcomes : SensorRead(outcome, 0)
    \/ SettleDone
    \/ Tick
    \/ SensorResume
    \/ PaceDone
    \/ \E written \in BOOLEAN : Interrupt(written)

\* the steps of a MessageReader
MessageSteps ==
    \/ MessageEnter
    \/ MessageRead
    \/ MessageResume

Next == Caller \/ SensorSteps \/ MessageSteps
NextMessage == Caller \/ MessageSteps

InitMessage == Init /\ kind = "message"

\* ------------------------------------------------------ transport faults
\* `with reader` on a SensorReader, cut short by a KeyboardInterrupt in the
\* pre-heat wait of open(): __enter__ raises and __exit__ is not called
PreHeatInterrupt(slept) ==
    /\ kind = "sensor" /\ scope # "in" /\ opens < MaxOpens
    /\ sstream.pre_heat > 0 /\ slept < sstream.pre_heat
    /\ LET o == SensorStream_open_interrupted(sstream, [serial EXCEPT !.log = <<>>],
                                              slept)
       IN  /\ sstream' = o.stream
           /\ serial' = o.serial
           /\ slept_preheat' = slept_preheat + o.slept
    /\ scope' = "out"
    /\ error' = "KeyboardInterrupt"
    /\ opens' = opens + 1
    /\ closes' = 0
    /\ helper' = FALSE
    /\ UNCHANGED <<config, samples, mstream, genv>>

\* `with reader` when the transport cannot be opened: serial.open() or
\* path.open() raises, nothing else of open() runs
OpenFails ==
    /\ scope # "in" /\ opens < MaxOpens
    /\ kind = "sensor" => ~sstream.is_open
    /\ error' = IF kind = "sensor" THEN "SerialException" ELSE "FileNotFoundError"
    /\ serial' = [serial EXCEPT !.log = <<>>]
    /\ scope' = "out"
    /\ opens' = opens + 1
    /\ closes' = 0
    /\ helper' = FALSE
    /\ UNCHANGED <<config, samples, sstream, mstream, genv, slept_preheat>>

\* the caller calls reader.stream.close() after a scope entry that failed
StreamClose ==
    /\ scope = "out" /\ opens > 0 /\ closes = 0
    /\ closes' = 1
    /\ IF kind = "sensor"
       THEN IF sstream.is_open
            THEN LET c == SensorStream_close(sstream, serial)
                 IN  /\ sstream' = c.stream /\ serial' = c.serial
                     /\ error' = "none"
            ELSE \* _cmd("sleep") on a port that is not open
                 /\ error' = "PortNotOpenError"
                 /\ UNCHANGED <<sstream, serial>>
       ELSE UNCHANGED <<sstream, serial>>
    /\ IF kind = "message"
       THEN IF mstream.has_csv
            THEN mstream' = MessageStream_close(mstream) /\ error' = "none"
            ELSE \* self.csv was never assigned
                 mstream' = mstream /\ error' = "AttributeError"
       ELSE mstream' = mstream
    /\ UNCHANGED <<config, samples, scope, opens, helper, genv, slept_preheat>>

\* the scope is left and the sleep exchange of close() raises
ExitSleepFails(sent) ==
    /\ kind = "sensor" /\ scope = "in"
    /\ LET c == SensorStream_close_failed(sstream, serial, sent)
       IN  sstream' = c.stream /\ serial' = c.serial
    /\ scope' = "left"
    /\ closes' = closes + 1
    /\ error' = "SerialException"
    /\ UNCHANGED <<config, samples, mstream, opens, helper, genv, slept_preheat>>

FaultSteps ==
    \/ \E slept \in 0..(MaxPreHeat - 1) : PreHeatInterrupt(slept)
    \/ OpenFails
    \/ StreamClose
    \/ \E sent \in BOOLEAN : ExitSleepFails(sent)

\* reads that leave bytes in the input buffer
BufferSteps ==
    \E outcome \in Outcomes, left \in 1..MaxJunk : SensorRead(outcome, left)

\* scope entries through the fatal-open helper
HelperSteps ==
    \/ SensorExitOnFail
    \/ MessageExitOnFail

NextHelper == Next \/ HelperSteps
NextFault == Next \/ FaultSteps
NextBuffer == Caller \/ SensorSteps \/ BufferSteps

\* one paced, pre-heating sensor configuration, or any replay log
InitPaced ==
    /\ Init
    /\ samples0 \in {None, 1}
    /\ kind = "sensor" => interval = MaxInterval /\ sensor_pre_heat = MaxPreHeat

InitSensor == InitPaced /\ kind = "sensor"

\* a Reader of either kind and its caller
Spec == Init /\ [][Next]_vars
\* a Reader whose scope is also entered through exit_on_fail
SpecHelper == InitPaced /\ [][NextHelper]_vars
\* a Reader whose transport can fail and whose open() can be interrupted
SpecFault == InitPaced /\ [][NextFault]_vars
\* a SensorReader whose device sends more bytes than a read takes
SpecBuffer == InitSensor /\ [][NextBuffer]_vars
\* a MessageReader and its caller
SpecMessage == InitMessage /\ [][NextMessage]_vars

\* ------------------------------------------------------------- claims
EndsWith(log, tail) ==
    /\ Len(log) >= Len(tail)
    /\ SubSeq(log, Len(log) - Len(tail) + 1, Len(log)) = tail

Count(log, e) == Cardinality({i \in 1..Len(log) : log[i] = e})

\* every read() of the current invocation returned a Reading and nothing
\* interrupted it
EveryReadSucceeded == pc # "none" /\ reads = Len(out) /\ done_by # "interrupt"

\* C1: with samples = N >= 1 and every read() succeeding, the SensorReader
\* callable never yields more than N items, goes on to no further read once
\* N are out, and finishes only by the sample cap, with N items and no error.
C1_ExactlyN ==
    (kind = "sensor" /\ samples0 >= 1 /\ EveryReadSucceeded) =>
        /\ Len(out) <= samples0
        /\ (Len(out) = samples0 => pc \in {"yielded", "done"})
        /\ (pc = "done" => done_by = "samples" /\ Len(out) = samples0)

C1_Witness ==
    /\ kind = "sensor" /\ scope = "in" /\ samples0 = MaxSamples
    /\ pc = "done" /\ done_by = "samples" /\ Len(out) = MaxSamples /\ reads = MaxSamples

\* C2: Stream.close() has not run while the scope is open, and once the scope
\* has been left, by whatever path, it has run exactly once: a SensorStream
\* has sent one sleep command and then closed the port, a MessageStream has
\* closed its file.
C2_Release ==
    /\ scope = "in" =>
          /\ closes = 0
          /\ IF kind = "sensor" THEN sstream.is_open ELSE mstream.csv_open
    /\ scope = "left" =>
          /\ closes = 1
          /\ IF kind = "sensor"
             THEN /\ ~sstream.is_open
                  /\ EndsWith(serial.log, <<"sleep", "close">>)
                  /\ Count(serial.log, "sleep") = 1
                  /\ Count(serial.log, "close") = 1
             ELSE ~mstream.csv_open

\* the scope was left by an error raised out of the iteration
C2_Witness ==
    /\ kind = "sensor" /\ scope = "left" /\ error = "Error" /\ done_by = "error"
    /\ Len(out) = 1 /\ closes = 1

\* C3: a SensorNotReady costs one settle delay of 5 seconds and no sample
\* slot: at every yield the seconds slept in the settle delay are 5 times the
\* not-ready outcomes so far, and the items out are exactly the successes.
C3_NotReadyRetry ==
    kind = "sensor" =>
        /\ (pc = "settle" =>
               /\ n_notready >= 1
               /\ slept_settle = SettleDelay * (n_notready - 1)
               /\ sample = Len(out))
        /\ (pc = "read" =>
               /\ slept_settle = SettleDelay * n_notready
               /\ sample = Len(out))
        /\ (pc = "yielded" =>
               /\ slept_settle = SettleDelay * n_notready
               /\ Len(out) = reads - n_notready - n_warning
               /\ sample = Len(out) - 1)

\* two not-ready outcomes, then a success
C3_Witness ==
    /\ kind = "sensor" /\ scope = "in" /\ pc = "yielded"
    /\ n_notready = 2 /\ n_warning = 0 /\ Len(out) = 1
    /\ slept_settle = 2 * SettleDelay

\* C4: a SensorWarning is retried at once: with no not-ready outcome there is
\* no settle delay at all, a warning takes no sample slot, and a warning
\* followed by a good frame gives one item for two passive_read commands.
C4_WarningRetry ==
    kind = "sensor" =>
        /\ (n_notready = 0 => slept_settle = 0 /\ pc # "settle")
        /\ (pc = "read" => sample = Len(out))
        /\ (pc = "yielded" =>
               /\ serial.passive_reads = Len(out) + n_notready + n_warning
               /\ sample = Len(out) - 1)
        /\ (pc = "yielded" /\ reads = 2 /\ n_warning = 1 /\ n_notready = 0 =>
               /\ Len(out) = 1
               /\ serial.passive_reads = 2
               /\ slept_settle = 0)

\* a warning, then a good frame
C4_Witness ==
    /\ kind = "sensor" /\ scope = "in" /\ pc = "yielded"
    /\ reads = 2 /\ n_warning = 1 /\ n_notready = 0 /\ Len(out) = 1
    /\ serial.passive_reads = 2

\* C5: with a retry budget of K, once more than K retryable failures have
\* arrived in one invocation the callable has raised SensorWarmingUp or
\* SensorWarning and stopped (the claim as stated; SensorReader has no
\* retry budget).
C5_BoundedRetries ==
    kind = "sensor" =>
        \A K \in 0..MaxRetries :
            (n_notready + n_warning > K) =>
                /\ pc = "done"
                /\ done_by = "error"
                /\ error \in {"SensorWarmingUp", "SensorWarning"}

\* C6: SensorStream.open() raises "did not respond" exactly for an empty
\* combined answer, "failed validation" exactly for a non-empty answer that
\* fails sensor.check, and otherwise returns, the scope being entered; either
\* way the wake and passive_mode commands were sent once each.
C6_OpenClassification ==
    [][(kind = "sensor" /\ opens' = opens + 1) =>
          LET n == device.wake + device.mode IN
          /\ (n = 0 =>
                 /\ error' = "UnableToRead: Sensor did not respond"
                 /\ scope' = "out")
          /\ (n > 0 /\ ~device.valid =>
                 /\ error' = "UnableToRead: Sensor failed validation"
                 /\ scope' = "out")
          /\ (n > 0 /\ device.valid => error' = "none" /\ scope' = "in")
          /\ Count(serial'.log, "wake") = 1
          /\ Count(serial'.log, "passive_mode") = 1
          /\ serial'.passive_reads = serial.passive_reads
      ]_vars

\* a device that answers but is another model
C6_Witness ==
    /\ kind = "sensor" /\ opens = 1 /\ scope = "out"
    /\ device.wake + device.mode > 0 /\ ~device.valid
    /\ error = "UnableToRead: Sensor failed validation"

\* C7: a KeyboardInterrupt inside the generator finishes it at once with no
\* further item and no error for the caller, the scope stays as it was, and
\* the scope exit that follows sends the sleep command and closes the port.
C7_SilentCancel ==
    [][/\ (kind = "sensor" /\ done_by' = "interrupt" /\ done_by # "interrupt") =>
              /\ pc' = "done"
              /\ out' = out
              /\ error' = error
              /\ scope' = scope
              /\ sstream' = sstream
       /\ (kind = "sensor" /\ done_by = "interrupt" /\ done_by' = "interrupt") =>
              /\ pc' = "done"
              /\ out' = out
              /\ (scope = "in" /\ scope' # "in" =>
                     /\ scope' = "left"
                     /\ ~sstream'.is_open
                     /\ EndsWith(serial'.log, <<"sleep", "close">>))
      ]_vars

\* cancelled in the open scope after one item
C7_Witness ==
    /\ kind = "sensor" /\ scope = "in" /\ pc = "done" /\ done_by = "interrupt"
    /\ Len(out) = 1 /\ error = "none"

\* C8: after a yield that is not the last, the pacing sleep is
\* max(0, interval - elapsed) with elapsed the time since the reading's time
\* stamp, and none without an interval; after the last sample there is none.
C8_Pacing ==
    /\ [](pc = "pace" => delay > 0 /\ Truthy(interval) /\ delay <= interval)
    /\ [][(kind = "sensor" /\ pc = "yielded" /\ sample' = sample + 1) =>
             IF samples0 # None /\ sample' >= samples0
             THEN pc' = "done" /\ delay' = 0
             ELSE /\ delay' = IF Truthy(interval) THEN Max(0, interval - elapsed) ELSE 0
                  /\ pc' = IF delay' > 0 THEN "pace" ELSE "read"
         ]_vars

\* a pacing sleep shortened by the time the caller took
C8_Witness ==
    /\ kind = "sensor" /\ pc = "pace" /\ interval = MaxInterval
    /\ delay = MaxInterval - 1 /\ Len(out) = 1

\* C9: the pre-heat wait is made in the first open() of the instance and in
\* no later one: from the first open() on, the seconds slept in it are
\* sensor.pre_heat and self.pre_heat is 0.
C9_PreHeatOnce ==
    kind = "sensor" =>
        /\ slept_preheat = (IF opens = 0 THEN 0 ELSE sensor_pre_heat)
        /\ (opens > 0 => sstream.pre_heat = 0)

\* the same instance opened a second time
C9_Witness ==
    /\ kind = "sensor" /\ opens = 2 /\ scope = "in"
    /\ sensor_pre_heat > 0 /\ slept_preheat = sensor_pre_heat

\* the items a replay of the whole log yields
Items(rs) == [i \in 1..Len(rs) |-> Yielded(Reading(rs[i].hex, rs[i].time), raw)]

\* C10: a MessageReader with samples = None, invoked once in its first scope,
\* yields the matching records of the log in file order, nothing else, and
\* finishes without error when they are used up.
C10_Replay ==
    (kind = "message" /\ samples0 = None /\ opens = 1 /\ calls = 1 /\ scope = "in"
        /\ done_by # "closed") =>
        /\ Len(out) <= Len(Matching(rows))
        /\ out = SubSeq(Items(Matching(rows)), 1, Len(out))
        /\ done_by \in {"none", "exhausted"}
        /\ (pc = "done" => out = Items(Matching(rows)))

\* two matching records around one of another model
C10_Witness ==
    /\ kind = "message" /\ samples0 = None /\ opens = 1 /\ calls = 1 /\ scope = "in"
    /\ Len(rows) = 3 /\ rows[1].sensor = SensorName /\ rows[2].sensor = OtherName
    /\ rows[3].sensor = SensorName
    /\ pc = "done" /\ done_by = "exhausted" /\ Len(out) = 2

\* C11: a Reader whose scope was never entered yields nothing: every
\* invocation of its callable finishes at its first read() without an item and
\* without an error for the caller, and nothing is sent to the serial port.
C11_NeverOpened ==
    opens = 0 =>
        /\ out = <<>>
        /\ error = "none"
        /\ serial.log = <<>> /\ serial.passive_reads = 0
        /\ pc \in {"none", "read", "done"}
        /\ (pc = "done" => done_by \in {"closed", "interrupt"})
        /\ (reads > 0 => pc = "done" /\ reads = 1)

\* a SensorReader invoked a second time, still never opened
C11_Witness ==
    /\ kind = "sensor" /\ opens = 0 /\ calls = 2
    /\ pc = "done" /\ done_by = "closed" /\ reads = 1

\* C12: a scope entry through exit_on_fail never lets UnableToRead reach the
\* caller: when open() raises it the caller gets SystemExit with status 1,
\* the scope is not entered and nothing of the body has run; when open()
\* succeeds the scope is entered, and once it has been left Stream.close()
\* has run exactly once.
C12_ExitOnFail ==
    /\ [](helper =>
            /\ error \notin UnableToRead
            /\ (scope = "in" => closes = 0)
            /\ (scope = "left" =>
                   /\ closes = 1
                   /\ IF kind = "sensor" THEN ~sstream.is_open ELSE ~mstream.csv_open))
    /\ [][(helper' /\ opens' = opens + 1) =>
            /\ (scope' = "in") = (error' = "none")
            /\ (scope' # "in" =>
                   /\ error' = "SystemExit: 1"
                   /\ scope' = "out"
                   /\ closes' = 0
                   /\ genv' = genv)
            /\ (kind = "sensor" /\ device.wake + device.mode + serial.in_waiting = 0
                   => error' = "SystemExit: 1")
            /\ (kind = "sensor" /\ ~device.valid => error' = "SystemExit: 1")
            /\ (kind = "message" => scope' = "in")
       ]_vars

\* a silent device behind the helper: exit status 1, scope not entered
C12_Witness ==
    /\ kind = "sensor" /\ helper /\ opens = 1 /\ scope = "out"
    /\ device.wake + device.mode = 0
    /\ error = "SystemExit: 1" /\ calls = 0 /\ closes = 0

\* C13: a Reader configured with samples < 1 behaves as with samples = 1: an
\* invocation yields at most one item and, once one is out and the caller has
\* resumed the iteration, has finished by the sample cap (the claim as stated;
\* MessageReader with samples = 0 replays the whole log).
C13_SamplesCoercion ==
    (samples0 # None /\ samples0 < 1) =>
        /\ Len(out) <= 1
        /\ (Len(out) = 1 /\ pc # "yielded" => pc = "done" /\ done_by = "samples")

\* C14: a scope entry whose open() raised "did not respond" or "failed
\* validation" is not followed by Stream.close(): no sleep command is sent and
\* the port is not closed, however often the entry is tried again.
C14_NoSleepAfterFailedOpen ==
    (kind = "sensor" /\ scope = "out" /\ opens > 0) =>
        /\ OpenResult(device.wake + device.mode, device.valid) \in UnableToRead
        /\ closes = 0
        /\ Count(serial.log, "sleep") = 0
        /\ Count(serial.log, "close") = 0

\* the entry failed validation twice
C14_Witness ==
    /\ kind = "sensor" /\ scope = "out" /\ opens = 2
    /\ error = "UnableToRead: Sensor failed validation"
    /\ serial.log = <<"wake", "passive_mode">>

\* C15: an invocation and its twin with the other raw flag, given the same
\* results of Stream.read(), the same clock and the same interrupts, are at
\* the same place after every step, with the same reads, retries, settle and
\* pacing sleeps, sample counts and termination; they have yielded the same
\* number of items, item by item for the same Reading, as RawData where raw
\* is set and as the decoded observation where it is not.
C15_RawOnlyRepresentation ==
    pc # "none" =>
        /\ twin.raw = ~raw
        /\ twin.pc = pc /\ twin.done_by = done_by
        /\ twin.reads = reads
        /\ twin.n_notready = n_notready /\ twin.n_warning = n_warning
        /\ twin.slept_settle = slept_settle /\ twin.delay = delay
        /\ twin.sample = sample /\ twin.samples = samples
        /\ Len(twin.out) = Len(out)
        /\ \A i \in 1..Len(out) :
              /\ out[i].time = twin.out[i].time
              /\ out[i].data = twin.out[i].data
              /\ out[i].repr = (IF raw THEN "RawData" ELSE "ObsData")
              /\ twin.out[i].repr = (IF raw THEN "ObsData" ELSE "RawData")

\* a raw invocation in its pacing sleep after a retry and one item
C15_Witness ==
    /\ kind = "sensor" /\ scope = "in" /\ raw /\ pc = "pace"
    /\ n_notready = 1 /\ Len(out) = 1 /\ out[1].repr = "RawData"
    /\ twin.pc = "pace" /\ twin.out[1].repr = "ObsData"

\* the port has been put to sleep and closed
Released == ~sstream.is_open /\ EndsWith(serial.log, <<"sleep", "close">>)

\* C16: a KeyboardInterrupt at a blocking point unwinds through the scope so
\* that Stream.close() has run: when it arrives in the pre-heat wait of
\* open() the sleep command has been sent and the port closed by the time the
\* `with` statement is left, and when it arrived in the iteration they are
\* once the scope is left (the claim as stated; an interrupt inside open()
\* leaves through __enter__, and __exit__ is not called).
C16_CancelCloses ==
    [][/\ (kind = "sensor" /\ opens' = opens + 1 /\ error' = "KeyboardInterrupt") =>
              Released'
       /\ (kind = "sensor" /\ done_by = "interrupt" /\ scope = "in" /\ scope' # "in"
              /\ error' # "SerialException") =>
              Released'
      ]_vars

\* some open() of the instance has returned normally
Validated ==
    /\ opens > 0
    /\ kind = "sensor" => OpenResult(device.wake + device.mode, device.valid) = "none"

\* C17: no item is ever yielded by a Reader whose stream has not been opened
\* and validated successfully (the claim as stated; after open() raised
\* UnableToRead the port is still open, so read() goes on to the device).
C17_NoReadingUnvalidated == ~Validated => out = <<>>

\* C18: Stream.close() called after a scope entry that failed, at whatever
\* step of open(), raises nothing and leaves the port or the file closed
\* (the claim as stated; close() raises when the port or the file was never
\* opened).
C18_CloseAfterFailedOpen ==
    [][(scope = "out" /\ opens > 0 /\ closes' = closes + 1) =>
          /\ error' = "none"
          /\ IF kind = "sensor" THEN ~sstream'.is_open ELSE ~mstream'.csv_open
      ]_vars

\* C19: whenever SensorStream.close() is called on an open port, the port is
\* closed afterwards, whether or not the sleep exchange succeeded (the claim
\* as stated; serial.close() is not reached when _cmd("sleep") raises).
C19_CloseReleases ==
    [][(kind = "sensor" /\ sstream.is_open /\ closes' = closes + 1) =>
          /\ ~sstream'.is_open
          /\ Count(serial'.log, "close") = Count(serial.log, "close") + 1
      ]_vars

\* C20: a read() that ends in a warning leaves the input buffer empty, yields
\* nothing and is followed at once by the next read; one that ends in
\* not-ready leaves the buffer as the command exchange left it, yields nothing
\* and goes to the settle delay; between reads nothing else empties or fills
\* the buffer while the port stays open.
C20_BufferResync ==
    [][/\ (kind = "sensor" /\ n_warning' = n_warning + 1) =>
              /\ serial'.in_waiting = 0
              /\ out' = out
              /\ pc' = "read"
       /\ (kind = "sensor" /\ n_notready' = n_notready + 1) =>
              /\ serial'.in_waiting = serial'.cmd_left
              /\ out' = out
              /\ pc' = "settle"
       /\ (serial'.in_waiting # serial.in_waiting) =>
              (reads' = reads + 1 \/ opens' # opens \/ closes' # closes)
      ]_vars

\* a warning after a not-ready frame, both with bytes left unread
C20_Witness ==
    /\ kind = "sensor" /\ scope = "in" /\ pc = "read"
    /\ n_notready = 1 /\ n_warning = 1 /\ reads = 2
    /\ serial.cmd_left = 1 /\ serial.in_waiting = 0 /\ slept_settle = SettleDelay

\* C21: with samples = N >= 1, no invocation of the callable, first or
\* repeated, yields more than N items, and each starts with the whole cap: the
\* count of one invocation is not carried into the next (the claim as stated;
\* MessageReader counts down self.samples on the instance).
C21_CapPerInvocation ==
    (samples0 # None /\ samples0 >= 1) =>
        /\ Len(out) <= samples0
        /\ (pc = "read" /\ reads = 0 => samples = samples0)

\* C22: once the scope has been left, an invocation whose iteration starts
\* without the scope being entered again finishes at its first read() with
\* no item and no error for the caller (the claim as stated; a MessageReader
\* whose log was not read to its end reads from the closed file).
C22_ClosedYieldsNothing ==
    [][(scope = "left" /\ scope' = "left" /\ error = "none"
           /\ pc = "read" /\ reads = 0 /\ reads' = 1) =>
          /\ pc' = "done"
          /\ out' = <<>>
          /\ error' = "none"
      ]_vars

====
